---- MODULE Spec2Model ----
(***************************************************************************)
(* Model of lib/tree.js (mongoose-path-tree, "ancestry" variant): the      *)
(* pre-save and pre-remove hooks that maintain the materialized ancestry   *)
(* string of every document of a collection.                               *)
(*                                                                         *)
(* Strings are sequences of one-character strings, so that the prefix,     *)
(* substring and replace operations of the code are computed on the text   *)
(* and not on an abstract list of ancestors.                               *)
(***************************************************************************)
EXTENDS Integers, Sequences, FiniteSets, TLC

\* ------------------------------------------------------------------ bounds
\* Number of operations (saves and removes) started on the collection.
MaxOps == 5

\* Largest minLevel a caller of getChildrenTree asks for.
MaxMinLevel == 3

\* ------------------------------------------------------- configuration
ancestrySeparator == "/"

\* options.numWorkers: a configured value (the default is 5); 2 makes the
\* cap on in-flight updates bind with the small collections explored here.
numWorkers == 2

\* ------------------------------------------------------------- values
\* Identifiers: separator-free strings.  "b" is a textual suffix of "ab".
Ids == { <<"a">>, <<"b">>, <<"c">>, <<"a", "b">> }

\* A missing parent (null / undefined).
Null == <<>>

\* A missing ancestry (undefined).  The code never stores the empty string,
\* so the empty sequence is free to stand for undefined.
Absent == <<>>

\* JavaScript truthiness of a string-or-undefined value.
Truthy(v) == v # <<>>

\* String(v) as done by '+': undefined becomes the text "undefined".
ToStr(v) == IF v = Absent THEN <<"u", "n", "d", "e", "f", "i", "n", "e", "d">> ELSE v

\* ------------------------------------------------ string primitives
\* t.substr(n)
Substr(t, n) == SubSeq(t, n + 1, Len(t))

\* new RegExp('^' + p).test(t), p free of metacharacters
StartsWith(t, p) == Len(p) <= Len(t) /\ SubSeq(t, 1, Len(p)) = p

\* positions at which p occurs in t
Occurrences(t, p) == { i \in 1..(Len(t) - Len(p) + 1) : SubSeq(t, i, i + Len(p) - 1) = p }

\* new RegExp(p).test(t), p free of metacharacters
Contains(t, p) == Occurrences(t, p) # {}

\* t.replace(p, ''): removes the first occurrence of the string p
ReplaceFirst(t, p) ==
    IF ~Contains(t, p) THEN t
    ELSE LET i == CHOOSE k \in Occurrences(t, p) : \A j \in Occurrences(t, p) : k <= j
         IN SubSeq(t, 1, i - 1) \o SubSeq(t, i + Len(p), Len(t))

\* t.split(ancestrySeparator)
RECURSIVE Split(_)
Split(t) ==
    IF \A i \in 1..Len(t) : t[i] # ancestrySeparator THEN << t >>
    ELSE LET i == CHOOSE k \in 1..Len(t) :
                     /\ t[k] = ancestrySeparator
                     /\ \A j \in 1..(k - 1) : t[j] # ancestrySeparator
         IN << SubSeq(t, 1, i - 1) >> \o Split(SubSeq(t, i + 1, Len(t)))

\* the virtual property level
virtualPropLevel(doc) == IF Truthy(doc.ancestry) THEN Len(Split(doc.ancestry)) ELSE 0

\* ------------------------------------------------------------- documents
NoDoc == [exists |-> FALSE, parent |-> Null, ancestry |-> Absent]

Doc(p, a) == [exists |-> TRUE, parent |-> p, ancestry |-> a]

\* Errors are named after the store call that failed.
NoErr == [call |-> "none", id |-> Null]

NoSelf == [id |-> Null, parent |-> Null, ancestry |-> Absent, isNew |-> FALSE]

\* No read operation has run.
NoQuery == [op |-> "none"]

VARIABLES
    store,          \* the collection: id -> document
    used,           \* ids the store has ever assigned
    onDelete,       \* options.onDelete
    ops,            \* operations started so far
    pc,             \* position of the running hook
    kind,           \* "save" | "remove" | "none"
    self,           \* the in-memory document the hook runs on
    isParentChange, \* this.isModified('parent')
    previousPath,   \* preSave's previousPath
    cursor,         \* documents the cursor has not streamed yet
    inflight,       \* updates issued and not yet acknowledged
    firstError,     \* first error seen by the stream worker
    calls,          \* store calls issued by the running hook
    applied,        \* updates acknowledged with success in this operation
    errs,           \* errors the store reported in this operation, in order
    nextCalls,      \* how many times the hook's continuation was invoked
    nextErr,        \* the error handed to the continuation
    pre,            \* the collection when the operation started
    query           \* the read operation that ran last, with its outcome

vars == << store, used, onDelete, ops, pc, kind, self, isParentChange, previousPath,
           cursor, inflight, firstError, calls, applied, errs, nextCalls, nextErr, pre,
           query >>

hookVars == << kind, self, isParentChange, previousPath >>

opVars == << cursor, inflight, firstError, applied >>

\* the error of store call c on document i
Err(c, i) == [call |-> c, id |-> i]

\* an error reported by the store
Reported(e) == errs' = Append(errs, e)

\* ------------------------------------------------------- the collection
Stored == { i \in Ids : store[i].exists }

\* find({ancestry: {$regex: '^' + path + '[/]'}}): documents whose ancestry
\* starts with the text of path followed by the separator
FindByAncestryPrefix(st, path) ==
    { i \in Ids : /\ st[i].exists
                  /\ Truthy(st[i].ancestry)
                  /\ StartsWith(st[i].ancestry, ToStr(path) \o << ancestrySeparator >>) }

\* find({parent: id})
FindByParent(st, id) == { i \in Ids : st[i].exists /\ st[i].parent = id }

\* find({ancestry: {$regex: id + '[/]'}}): not anchored
FindByAncestrySegment(st, id) ==
    { i \in Ids : /\ st[i].exists
                  /\ Truthy(st[i].ancestry)
                  /\ Contains(st[i].ancestry, id \o << ancestrySeparator >>) }

\* update({_id: u.id}, {$set: {<u.field>: u.value}})
ApplyUpdate(st, u) ==
    IF ~st[u.id].exists THEN st
    ELSE IF u.field = "parent" THEN [st EXCEPT ![u.id].parent = u.value]
    ELSE [st EXCEPT ![u.id].ancestry = u.value]

\* remove({ancestry: {$regex: '^' + path + '[/]'}})
RemoveByAncestryPrefix(st, path) ==
    [i \in Ids |-> IF i \in FindByAncestryPrefix(st, path) THEN NoDoc ELSE st[i]]

\* What the host does once the hook's continuation reports success: the
\* document is written (save) or deleted (remove).
HostWrite(k, doc, st) ==
    IF k = "save" THEN [st EXCEPT ![doc.id] = Doc(doc.parent, doc.ancestry)]
    ELSE [st EXCEPT ![doc.id] = NoDoc]

\* next(err): the hook's continuation, then the host's write on success.
next(k, doc, err, st) ==
    /\ nextCalls' = nextCalls + 1
    /\ nextErr' = err
    /\ pc' = "done"
    /\ store' = IF err = NoErr THEN HostWrite(k, doc, st) ELSE st

\* ------------------------------------------------------------- pre-save
\* ChildAncestry without the case of a parent that is a root
ChildAncestry_NoRootCase(doc, id) == doc.ancestry \o << ancestrySeparator >> \o id

\* The ancestry a document gets under the parent record doc.
ChildAncestry(doc, id) ==
    IF Truthy(doc.ancestry) THEN doc.ancestry \o << ancestrySeparator >> \o id ELSE id

\* The splice with the suffix taken one character further on.
SpliceAncestry_SkipsSeparator(newAncestry, docAncestry, prev) ==
    newAncestry \o Substr(docAncestry, Len(prev) + 1)

\* streamOnData of preSave: the new ancestry of a descendant
SpliceAncestry(newAncestry, docAncestry, prev) ==
    newAncestry \o Substr(docAncestry, Len(prev))

\* The synchronous part of preSave.
preSave(doc, mod) ==
    /\ kind' = "save"
    /\ self' = doc
    /\ isParentChange' = mod
    /\ previousPath' = Absent
    /\ IF (doc.isNew \/ mod) /\ Truthy(doc.parent)
       THEN /\ pc' = "findOne"
            /\ calls' = {"findOne"}
            /\ UNCHANGED << store, nextCalls, nextErr >>
       ELSE /\ next("save", doc, NoErr, store)
            /\ calls' = {}

\* streamWorker(cursor.stream(), numWorkers, worker, done): a new worker
\* over the documents the cursor matched.
StreamStart(matched) ==
    /\ cursor' = matched
    /\ inflight' = {}
    /\ firstError' = NoErr

\* A document is an ancestor of itself or of p, by the parent links or by
\* the ancestry text (the engine does not handle cyclic reparenting).
RECURSIVE ParentChain(_, _, _)
ParentChain(st, i, fuel) ==
    IF fuel = 0 \/ i = Null \/ ~st[i].exists THEN {}
    ELSE {i} \cup ParentChain(st, st[i].parent, fuel - 1)

Segments(a) == IF Truthy(a) THEN { Split(a)[k] : k \in 1..Len(Split(a)) } ELSE {}

Cyclic(st, id, p) ==
    /\ p # Null
    /\ \/ p = id
       \/ st[p].exists /\ (id \in ParentChain(st, p, Cardinality(Ids)) \/ id \in Segments(st[p].ancestry))

Begin ==
    /\ pc = "idle"
    /\ query = NoQuery
    /\ ops < MaxOps
    /\ ops' = ops + 1
    /\ pre' = store
    /\ UNCHANGED << onDelete, query, opVars >>
    /\ UNCHANGED errs

\* new Model({parent: p}).save()
Create(id, p, mod) ==
    /\ Begin
    /\ id \notin used
    /\ p # id
    /\ p = Null => ~mod
    /\ used' = used \cup {id}
    /\ preSave([id |-> id, parent |-> p, ancestry |-> Absent, isNew |-> TRUE], mod)

\* doc.parent = p; doc.save()
Save(id, p, mod) ==
    /\ Begin
    /\ store[id].exists
    /\ ~Cyclic(store, id, p)
    /\ p # store[id].parent => mod
    /\ UNCHANGED used
    /\ preSave([id |-> id, parent |-> p, ancestry |-> store[id].ancestry, isNew |-> FALSE], mod)

\* The callback of findOne({_id: this.parent}).
FindOneError ==
    /\ pc = "findOne"
    /\ next(kind, self, Err("findOne", self.parent), store)
    /\ Reported(Err("findOne", self.parent))
    /\ UNCHANGED << used, onDelete, query, ops, hookVars, opVars, calls, pre >>

FindOneReply ==
    /\ pc = "findOne"
    /\ LET doc == store[self.parent] IN
       IF ~doc.exists
       THEN \* doc is null: reading doc.ancestry throws inside the callback
            /\ pc' = "crashed"
            /\ UNCHANGED << store, self, previousPath, calls, nextCalls, nextErr >>
       ELSE LET me == [self EXCEPT !.ancestry = ChildAncestry(doc, self.parent)] IN
            /\ previousPath' = self.ancestry
            /\ self' = me
            /\ IF isParentChange
               THEN /\ pc' = "findDesc"
                    /\ calls' = calls \cup {"findDesc"}
                    /\ UNCHANGED << store, nextCalls, nextErr >>
               ELSE /\ next(kind, me, NoErr, store)
                    /\ UNCHANGED calls
    /\ UNCHANGED << used, onDelete, query, ops, kind, isParentChange, opVars, pre >>
    /\ UNCHANGED errs

\* The callback of find({ancestry: ...}) in preSave.
FindDescError ==
    /\ pc = "findDesc"
    /\ next(kind, self, Err("findDesc", Null), store)
    /\ Reported(Err("findDesc", Null))
    /\ UNCHANGED << used, onDelete, query, ops, hookVars, opVars, calls, pre >>

\* FindDescReply calling next() right after starting the worker
FindDescReply_NextNotDeferred ==
    /\ pc = "findDesc"
    /\ StreamStart(FindByAncestryPrefix(store, previousPath))
    /\ next(kind, self, NoErr, store)
    /\ UNCHANGED << used, onDelete, query, ops, hookVars, applied, calls, pre, errs >>

FindDescReply ==
    /\ pc = "findDesc"
    /\ StreamStart(FindByAncestryPrefix(store, previousPath))
    /\ pc' = "stream"
    /\ UNCHANGED << store, used, onDelete, query, ops, hookVars, applied,
                    calls, nextCalls, nextErr, pre >>
    /\ UNCHANGED errs

\* ----------------------------------------------------------- pre-remove
\* subStreamOnData: the ancestry of a deeper descendant without the removed id
DropSegment(docAncestry, id) == ReplaceFirst(docAncestry, id \o << ancestrySeparator >>)

\* The synchronous part of preRemove.
preRemove(doc) ==
    /\ kind' = "remove"
    /\ self' = doc
    /\ isParentChange' = FALSE
    /\ previousPath' = Absent
    /\ IF ~Truthy(doc.ancestry)
       THEN /\ next("remove", doc, NoErr, store)
            /\ calls' = {}
       ELSE /\ IF onDelete = "DELETE"
               THEN pc' = "removeBulk" /\ calls' = {"remove"}
               ELSE pc' = "findChildren" /\ calls' = {"findChildren"}
            /\ UNCHANGED << store, nextCalls, nextErr >>

\* doc.remove()
Remove(id) ==
    /\ Begin
    /\ store[id].exists
    /\ UNCHANGED used
    /\ preRemove([id |-> id, parent |-> store[id].parent,
                  ancestry |-> store[id].ancestry, isNew |-> FALSE])

\* collection.remove(filter, next): the bulk delete and its callback.
RemoveBulkError ==
    /\ pc = "removeBulk"
    /\ next(kind, self, Err("remove", Null), store)
    /\ Reported(Err("remove", Null))
    /\ UNCHANGED << used, onDelete, query, ops, hookVars, opVars, calls, pre >>

RemoveBulkReply ==
    /\ pc = "removeBulk"
    /\ next(kind, self, NoErr, RemoveByAncestryPrefix(store, self.ancestry))
    /\ UNCHANGED << used, onDelete, query, ops, hookVars, opVars, calls, pre >>
    /\ UNCHANGED errs

\* The callback of find({parent: previousParent}).
FindChildrenError ==
    /\ pc = "findChildren"
    /\ next(kind, self, Err("findChildren", Null), store)
    /\ Reported(Err("findChildren", Null))
    /\ UNCHANGED << used, onDelete, query, ops, hookVars, opVars, calls, pre >>

FindChildrenReply ==
    /\ pc = "findChildren"
    /\ StreamStart(FindByParent(store, self.id))
    /\ pc' = "stream1"
    /\ UNCHANGED << store, used, onDelete, query, ops, hookVars, applied,
                    calls, nextCalls, nextErr, pre >>
    /\ UNCHANGED errs

\* The callback of find({ancestry: {$regex: previousParent + '[/]'}}): it does
\* not look at err and calls cursor.stream() on whatever it was given.
FindSubError ==
    /\ pc = "findSub"
    /\ pc' = "crashed"
    /\ Reported(Err("findSub", Null))
    /\ UNCHANGED << store, used, onDelete, query, ops, hookVars, opVars, calls, nextCalls, nextErr, pre >>

FindSubReply ==
    /\ pc = "findSub"
    /\ StreamStart(FindByAncestrySegment(store, self.id))
    /\ pc' = "stream2"
    /\ UNCHANGED << store, used, onDelete, query, ops, hookVars, applied,
                    calls, nextCalls, nextErr, pre >>
    /\ UNCHANGED errs

\* ------------------------------------------------------- stream worker
Streaming == pc \in {"stream", "stream1", "stream2"}

\* The update the worker function of the running stream issues for document d.
WorkerUpdate(d) ==
    IF pc = "stream"
    THEN [call |-> "update", id |-> d, field |-> "ancestry",
          value |-> SpliceAncestry(self.ancestry, store[d].ancestry, previousPath)]
    ELSE IF pc = "stream1"
    THEN [call |-> "update1", id |-> d, field |-> "parent", value |-> self.parent]
    ELSE [call |-> "update2", id |-> d, field |-> "ancestry",
          value |-> DropSegment(store[d].ancestry, self.id)]

\* The stream hands the next document to the worker function while fewer
\* than numWorkers updates are outstanding and no error was seen.
StreamData(d) ==
    /\ Streaming
    /\ d \in cursor
    /\ firstError = NoErr
    /\ Cardinality(inflight) < numWorkers
    /\ cursor' = cursor \ {d}
    /\ IF pc = "stream" /\ previousPath = Absent
       THEN \* previousPath.length on undefined throws inside the worker
            /\ pc' = "crashed"
            /\ UNCHANGED << inflight, calls >>
       ELSE /\ inflight' = inflight \cup {WorkerUpdate(d)}
            /\ calls' = calls \cup {WorkerUpdate(d).call}
            /\ UNCHANGED pc
    /\ UNCHANGED << store, used, onDelete, query, ops, hookVars, firstError, applied,
                    nextCalls, nextErr, pre >>
    /\ UNCHANGED errs

\* The store acknowledges an update: done() of the worker.
UpdateAck(u) ==
    /\ Streaming
    /\ u \in inflight
    /\ inflight' = inflight \ {u}
    /\ store' = ApplyUpdate(store, u)
    /\ applied' = applied \cup {u}
    /\ UNCHANGED << used, onDelete, query, ops, pc, hookVars, cursor, firstError, calls,
                    nextCalls, nextErr, pre >>
    /\ UNCHANGED errs

\* The store fails an update: done(err) of the worker.
UpdateFail(u) ==
    /\ Streaming
    /\ u \in inflight
    /\ inflight' = inflight \ {u}
    /\ firstError' = IF firstError = NoErr THEN Err(u.call, u.id) ELSE firstError
    /\ Reported(Err(u.call, u.id))
    /\ UNCHANGED << store, used, onDelete, query, ops, pc, hookVars, cursor, applied, calls,
                    nextCalls, nextErr, pre >>

\* Every document was processed, or an error was seen and the in-flight
\* updates have drained: the completion callback runs, once.
StreamDone == Streaming /\ inflight = {} /\ (cursor = {} \/ firstError # NoErr)

\* streamOnClose without its test of err
streamOnClose_ErrIgnored ==
    /\ pc = "stream1"
    /\ StreamDone
    /\ pc' = "findSub"
    /\ calls' = calls \cup {"findSub"}
    /\ UNCHANGED << store, nextCalls, nextErr >>
    /\ UNCHANGED << used, onDelete, query, ops, hookVars, opVars, pre, errs >>

\* streamOnClose of REPARENT stage 1
streamOnClose ==
    /\ pc = "stream1"
    /\ StreamDone
    /\ IF firstError # NoErr
       THEN /\ next(kind, self, firstError, store)
            /\ UNCHANGED calls
       ELSE /\ pc' = "findSub"
            /\ calls' = calls \cup {"findSub"}
            /\ UNCHANGED << store, nextCalls, nextErr >>
    /\ UNCHANGED << used, onDelete, query, ops, hookVars, opVars, pre >>
    /\ UNCHANGED errs

\* next passed as the completion callback (preSave, REPARENT stage 2)
StreamClose ==
    /\ pc \in {"stream", "stream2"}
    /\ StreamDone
    /\ next(kind, self, firstError, store)
    /\ UNCHANGED << used, onDelete, query, ops, hookVars, opVars, calls, pre >>
    /\ UNCHANGED errs

\* The operation is over (reported, or the callback threw): the next one may start.
Return ==
    /\ pc \in {"done", "crashed"}
    /\ pc' = "idle"
    /\ kind' = "none"
    /\ self' = NoSelf
    /\ isParentChange' = FALSE
    /\ previousPath' = Absent
    /\ cursor' = {}
    /\ inflight' = {}
    /\ firstError' = NoErr
    /\ calls' = {}
    /\ applied' = {}
    /\ errs' = << >>
    /\ nextCalls' = 0
    /\ nextErr' = NoErr
    /\ pre' = store
    /\ UNCHANGED << store, used, onDelete, query, ops >>

\* ------------------------------------------------------- query surface
\* A read runs between two writes; it changes nothing but its own outcome.
ReadOnly ==
    /\ pc = "idle"
    /\ query = NoQuery
    /\ UNCHANGED << store, used, onDelete, ops, pc, hookVars, opVars, calls, errs,
                    nextCalls, nextErr, pre >>

\* getChildren(recursive, next): the documents its filter selects
getChildren(st, id, recursive) ==
    IF recursive THEN FindByAncestryPrefix(st, st[id].ancestry)
    ELSE FindByParent(st, id)

\* doc.getChildren(recursive, next)
GetChildren(id, recursive) ==
    /\ ReadOnly
    /\ store[id].exists
    /\ query' = [op |-> "getChildren", self |-> id, recursive |-> recursive,
                 out |-> getChildren(store, id, recursive)]

\* ids.pop(): the sequence without its last element
Pop(s) == SubSeq(s, 1, Len(s) - 1)

\* getAncestors: the ids of its {_id: {$in: ids}} filter
getAncestors(st, id) ==
    IF Truthy(st[id].ancestry)
    THEN LET ids == Pop(Split(st[id].ancestry)) IN { ids[k] : k \in 1..Len(ids) }
    ELSE {}

\* doc.getAncestors(next)
GetAncestors(id) ==
    /\ ReadOnly
    /\ store[id].exists
    /\ query' = [op |-> "getAncestors", self |-> id, out |-> getAncestors(store, id)]

\* --------------------------------------------------------- tree assembler
\* The code unit of a character, for the store's ascending string sort.
CharCode(c) == CASE c = "/" -> 47 [] c = "a" -> 97 [] c = "b" -> 98 [] c = "c" -> 99

\* s sorts before t or with it; a missing ancestry sorts first.
RECURSIVE LexLeq(_, _)
LexLeq(s, t) ==
    IF s = << >> THEN TRUE
    ELSE IF t = << >> THEN FALSE
    ELSE IF Head(s) # Head(t) THEN CharCode(Head(s)) < CharCode(Head(t))
    ELSE LexLeq(Tail(s), Tail(t))

\* find(filters, fields, {sort: {ancestry: 1}}): the matched documents in
\* every order the sort allows (documents of equal ancestry come in any order).
SortedByAncestry(st, matched) ==
    { r \in [1..Cardinality(matched) -> matched] :
        /\ \A i, j \in 1..Cardinality(matched) : i # j => r[i] # r[j]
        /\ \A i, j \in 1..Cardinality(matched) :
              i < j => LexLeq(st[r[i]].ancestry, st[r[j]].ancestry) }

\* The filter of getChildrenTree; root is Null when no root is given.
TreeFilter(st, root, recursive) ==
    IF recursive
    THEN IF root # Null THEN FindByAncestryPrefix(st, st[root].ancestry)
         ELSE { i \in Ids : st[i].exists }
    ELSE FindByParent(st, root)

getLevel(ancestry) == IF Truthy(ancestry) THEN Len(Split(ancestry)) ELSE 0

\* An entry of the output; has tells whether its children array was set.
Entry(id, allowEmptyChildren) == [id |-> id, has |-> allowEmptyChildren, children |-> << >>]

\* createChildren(arr, node, level); defined is FALSE when arr is undefined,
\* and then reading arr.length or calling arr.push throws.
RECURSIVE createChildren(_, _, _, _, _, _)
createChildren(arr, defined, node, level, minLevel, allowEmptyChildren) ==
    IF ~defined THEN [threw |-> TRUE, arr |-> arr]
    ELSE IF level = minLevel
    THEN [threw |-> FALSE, arr |-> Append(arr, Entry(node, allowEmptyChildren))]
    ELSE IF arr = << >> THEN [threw |-> FALSE, arr |-> arr]
    ELSE LET myNode == arr[Len(arr)]
             sub == createChildren(myNode.children, myNode.has, node, level - 1,
                                   minLevel, allowEmptyChildren)
         IN [threw |-> sub.threw,
             arr |-> [arr EXCEPT ![Len(arr)] = [myNode EXCEPT !.children = sub.arr]]]

\* for (var r in results) createChildren(finalResults, results[r], level)
RECURSIVE Assemble(_, _, _, _, _)
Assemble(st, results, finalResults, minLevel, allowEmptyChildren) ==
    IF results = << >> THEN [threw |-> FALSE, arr |-> finalResults]
    ELSE LET one == createChildren(finalResults, TRUE, Head(results),
                                   getLevel(st[Head(results)].ancestry),
                                   minLevel, allowEmptyChildren)
         IN IF one.threw THEN one
            ELSE Assemble(st, Tail(results), one.arr, minLevel, allowEmptyChildren)

\* The level of the top-level entries: args.minLevel || 1, raised to rootLevel.
EffectiveMinLevel(st, root, minLevelArg) ==
    LET minLevel == IF minLevelArg = 0 THEN 1 ELSE minLevelArg
        rootLevel == IF root # Null THEN getLevel(st[root].ancestry) + 1 ELSE 1
    IN IF minLevel < rootLevel THEN rootLevel ELSE minLevel

\* Model.getChildrenTree(root, args, next); hasNext is FALSE when the caller
\* gave no callback, minLevelArg is 0 when args.minLevel is not given.
GetChildrenTree(root, minLevelArg, allowEmptyChildren, recursive, hasNext) ==
    /\ ReadOnly
    /\ root # Null => store[root].exists
    /\ LET call == [op |-> "getChildrenTree", root |-> root, minLevel |-> minLevelArg,
                    allowEmptyChildren |-> allowEmptyChildren, recursive |-> recursive,
                    hasNext |-> hasNext]
       IN IF ~hasNext
          THEN query' = call @@ [threw |-> TRUE, finds |-> 0, cbCalls |-> 0,
                                 results |-> << >>, out |-> << >>]
          ELSE \E results \in SortedByAncestry(store, TreeFilter(store, root, recursive)) :
                  LET res == Assemble(store, results, << >>,
                                      EffectiveMinLevel(store, root, minLevelArg),
                                      allowEmptyChildren)
                  IN query' = call @@ [threw |-> res.threw, finds |-> 1,
                                       cbCalls |-> IF res.threw THEN 0 ELSE 1,
                                       results |-> results,
                                       out |-> IF res.threw THEN << >> ELSE res.arr]

\* The caller has read the outcome.
QueryReturn ==
    /\ pc = "idle"
    /\ query # NoQuery
    /\ query' = NoQuery
    /\ UNCHANGED << store, used, onDelete, ops, pc, hookVars, opVars, calls, errs,
                    nextCalls, nextErr, pre >>

\* ------------------------------------------------------ specification
Init ==
    /\ store = [i \in Ids |-> NoDoc]
    /\ used = {}
    /\ onDelete \in {"DELETE", "REPARENT"}
    /\ ops = 0
    /\ pc = "idle"
    /\ kind = "none"
    /\ self = NoSelf
    /\ isParentChange = FALSE
    /\ previousPath = Absent
    /\ cursor = {}
    /\ inflight = {}
    /\ firstError = NoErr
    /\ calls = {}
    /\ applied = {}
    /\ errs = << >>
    /\ nextCalls = 0
    /\ nextErr = NoErr
    /\ pre = [i \in Ids |-> NoDoc]
    /\ query = NoQuery

Next ==
    \/ \E id \in Ids, p \in Ids \cup {Null}, mod \in BOOLEAN : Create(id, p, mod)
    \/ \E id \in Ids, p \in Ids \cup {Null}, mod \in BOOLEAN : Save(id, p, mod)
    \/ \E id \in Ids : Remove(id)
    \/ FindOneError
    \/ FindOneReply
    \/ FindDescError
    \/ FindDescReply
    \/ RemoveBulkError
    \/ RemoveBulkReply
    \/ FindChildrenError
    \/ FindChildrenReply
    \/ FindSubError
    \/ FindSubReply
    \/ \E d \in Ids : StreamData(d)
    \/ \E u \in inflight : UpdateAck(u)
    \/ \E u \in inflight : UpdateFail(u)
    \/ streamOnClose
    \/ StreamClose
    \/ Return

Spec == Init /\ [][Next]_vars

\* The same operations when the store reports no error.
NextClean ==
    \/ \E id \in Ids, p \in Ids \cup {Null}, mod \in BOOLEAN : Create(id, p, mod)
    \/ \E id \in Ids, p \in Ids \cup {Null}, mod \in BOOLEAN : Save(id, p, mod)
    \/ \E id \in Ids : Remove(id)
    \/ FindOneReply
    \/ FindDescReply
    \/ RemoveBulkReply
    \/ FindChildrenReply
    \/ FindSubReply
    \/ \E d \in Ids : StreamData(d)
    \/ \E u \in inflight : UpdateAck(u)
    \/ streamOnClose
    \/ StreamClose
    \/ Return

SpecClean == Init /\ [][NextClean]_vars

\* The hook has not run and no read is pending.
Quiet ==
    /\ used = Stored
    /\ ops = 0
    /\ pc = "idle"
    /\ kind = "none"
    /\ self = NoSelf
    /\ isParentChange = FALSE
    /\ previousPath = Absent
    /\ cursor = {}
    /\ inflight = {}
    /\ firstError = NoErr
    /\ calls = {}
    /\ applied = {}
    /\ errs = << >>
    /\ nextCalls = 0
    /\ nextErr = NoErr
    /\ pre = store
    /\ query = NoQuery

\* The ancestry I1 gives the document i of the forest par (id -> parent or Null).
RECURSIVE AncestryIn(_, _, _)
AncestryIn(par, i, fuel) ==
    IF par[i] = Null \/ fuel = 0 THEN Absent
    ELSE LET up == AncestryIn(par, par[i], fuel - 1)
         IN IF up = Absent THEN par[i] ELSE up \o << ancestrySeparator >> \o par[i]

RECURSIVE Reaches(_, _, _, _)
Reaches(par, i, j, fuel) ==
    /\ fuel > 0
    /\ par[i] # Null
    /\ (par[i] = j \/ Reaches(par, par[i], j, fuel - 1))

\* The collections made of trees: every parent is stored, no document is its
\* own ancestor, and every ancestry is the one I1 gives.
Forests ==
    { [i \in Ids |-> IF i \in S THEN Doc(par[i], AncestryIn(par, i, Cardinality(Ids)))
                     ELSE NoDoc] :
        <<S, par>> \in { sp \in (SUBSET Ids) \X [Ids -> Ids \cup {Null}] :
            /\ \A i \in Ids \ sp[1] : sp[2][i] = Null
            /\ \A i \in sp[1] : sp[2][i] # Null => sp[2][i] \in sp[1]
            /\ \A i \in sp[1] : ~Reaches(sp[2], i, i, Cardinality(Ids)) } }

\* The read operations on a collection made of trees.
InitQuery ==
    /\ store \in Forests
    /\ onDelete \in {"DELETE", "REPARENT"}
    /\ Quiet

NextQuery ==
    \/ \E id \in Ids, recursive \in BOOLEAN : GetChildren(id, recursive)
    \/ \E id \in Ids : GetAncestors(id)
    \/ \E root \in Ids \cup {Null}, minLevelArg \in 0..MaxMinLevel,
          allowEmptyChildren \in BOOLEAN, recursive \in BOOLEAN, hasNext \in BOOLEAN :
              GetChildrenTree(root, minLevelArg, allowEmptyChildren, recursive, hasNext)
    \/ QueryReturn

SpecQuery == InitQuery /\ [][NextQuery]_vars

\* The program as a misconfigured caller drives it: onDelete may be a value
\* that names no policy, and getChildrenTree is called without a callback.
InitMisuse ==
    /\ store = [i \in Ids |-> NoDoc]
    /\ onDelete \in {"DELETE", "REPARENT", "CASCADE"}
    /\ Quiet

NextMisuse ==
    \/ Next
    \/ \E root \in Ids \cup {Null} : GetChildrenTree(root, 0, TRUE, TRUE, FALSE)
    \/ QueryReturn

SpecMisuse == InitMisuse /\ [][NextMisuse]_vars

\* ================================================================ claims
\* pathOf(node) of the specification, on the collection st
PathOf(st, i) ==
    IF st[i].ancestry # Absent THEN st[i].ancestry \o << ancestrySeparator >> \o i ELSE i

\* I1 for one stored document whose parent is stored
I1At(st, n) ==
    (st[n].parent # Null /\ st[st[n].parent].exists) => st[n].ancestry = PathOf(st, st[n].parent)

\* A well-formed forest: parents are stored, I1 holds, roots have no ancestry.
Consistent(st) ==
    \A n \in Ids : st[n].exists =>
        /\ st[n].parent # Null => st[st[n].parent].exists
        /\ I1At(st, n)
        /\ st[n].parent = Null => st[n].ancestry = Absent

\* The descendants of n in st, by the parent links.
Descendants(st, n) ==
    { d \in Ids \ {n} : st[d].exists /\ n \in ParentChain(st, st[d].parent, Cardinality(Ids)) }

Children(st, n) == { d \in Ids : st[d].exists /\ st[d].parent = n }

\* The running hook has reported success (and the host has written).
Completed(k) == pc = "done" /\ kind = k /\ nextErr = NoErr

\* s without its entries equal to x
RECURSIVE Without(_, _)
Without(s, x) ==
    IF s = << >> THEN << >>
    ELSE IF Head(s) = x THEN Without(Tail(s), x)
    ELSE << Head(s) >> \o Without(Tail(s), x)

\* C1: between error-free operations, every stored document whose parent is
\* stored has ancestry == pathOf(parent) (I1).
C1_I1Consistency == pc = "idle" => \A n \in Stored : I1At(store, n)

\* C2: after a save that changes N's parent to a stored P2, on a well-formed
\* forest, every descendant of N has its old ancestry with the prefix
\* pathOf(old N) replaced by pathOf(new N), and every document outside N's
\* subtree is unchanged.
C2_ReparentCorrect ==
    (/\ Completed("save")
     /\ ~self.isNew
     /\ Consistent(pre)
     /\ self.parent # Null
     /\ self.parent # pre[self.id].parent)
    => /\ \A d \in Descendants(pre, self.id) :
             /\ store[d].exists
             /\ store[d].parent = pre[d].parent
             /\ store[d].ancestry =
                  PathOf(store, self.id) \o Substr(pre[d].ancestry, Len(PathOf(pre, self.id)))
       /\ \A x \in Ids \ (Descendants(pre, self.id) \cup {self.id}) : store[x] = pre[x]

\* C3: a remove under DELETE, on a well-formed forest, removes N and all of
\* N's descendants and leaves every other document stored and unchanged.
C3_CascadeDelete ==
    (Completed("remove") /\ onDelete = "DELETE" /\ Consistent(pre))
    => /\ ~store[self.id].exists
       /\ \A d \in Descendants(pre, self.id) : ~store[d].exists
       /\ \A x \in Ids \ (Descendants(pre, self.id) \cup {self.id}) : store[x] = pre[x]

\* C4: a remove under REPARENT, on a well-formed forest, gives every direct
\* child of N the parent of N, and takes N's id out of the ancestry of every
\* deeper descendant, the other segments keeping their order.
C4_ReparentOnDelete ==
    (Completed("remove") /\ onDelete = "REPARENT" /\ Consistent(pre))
    => /\ \A d \in Children(pre, self.id) : store[d].exists /\ store[d].parent = pre[self.id].parent
       /\ \A d \in Descendants(pre, self.id) \ Children(pre, self.id) :
             /\ store[d].exists
             /\ store[d].ancestry # Absent
             /\ Split(store[d].ancestry) = Without(Split(pre[d].ancestry), self.id)

\* C5: every stored document without a parent has an empty ancestry and level 0.
C5_RootsHaveNoAncestry ==
    \A n \in Stored :
        store[n].parent = Null => store[n].ancestry = Absent /\ virtualPropLevel(store[n]) = 0

\* C6: when the save of a new document with a stored parent P completes, its
\* ancestry is pathOf(P) and no other document was modified.
C6_CreateUnderParent ==
    (Completed("save") /\ self.isNew /\ self.parent # Null)
    => /\ store[self.id].exists
       /\ store[self.id].parent = self.parent
       /\ store[self.id].ancestry = PathOf(pre, self.parent)
       /\ \A x \in Ids \ {self.id} : store[x] = pre[x]

\* witness of C6: the parent of the created document is itself a child
C6_Witness ==
    /\ Completed("save")
    /\ self.isNew
    /\ self.parent # Null
    /\ pre[self.parent].ancestry # Absent
    /\ Cardinality(Stored) >= 3

\* The running operation is over: reported, or its callback threw.
Over == pc \in {"done", "crashed"}

AppliedTo(call) == { u.id : u \in { v \in applied : v.call = call } }

ErrorsOf(cs) == { k \in 1..Len(errs) : errs[k].call \in cs }

\* C7: the continuation reports success only once no rewrite of the operation
\* is unissued or in flight: every document matched by the operation's
\* queries has had its update acknowledged, and the bulk delete was applied.
C7_RewritesBeforeSuccess ==
    (nextCalls > 0 /\ nextErr = NoErr)
    => /\ cursor = {} /\ inflight = {}
       /\ "findDesc" \in calls => FindByAncestryPrefix(pre, previousPath) \subseteq AppliedTo("update")
       /\ "findChildren" \in calls => FindByParent(pre, self.id) \subseteq AppliedTo("update1")
       /\ "findSub" \in calls => FindByAncestrySegment(pre, self.id) \subseteq AppliedTo("update2")
       /\ "remove" \in calls => FindByAncestryPrefix(store, self.ancestry) = {}

\* witness of C7: a save that rewrote two descendants has reported success
C7_Witness ==
    /\ Completed("save")
    /\ Cardinality(AppliedTo("update")) >= 2

\* C8: stage 2 of REPARENT starts only after every stage-1 update settled
\* without error; a stage-1 error skips stage 2 and reaches the continuation;
\* a stage-2 error (of its find or of an update) reaches the continuation;
\* success is reported only after both stages.
C8_StagesOrdered ==
    /\ "findSub" \in calls =>
          /\ ErrorsOf({"findChildren", "update1"}) = {}
          /\ FindByParent(pre, self.id) \subseteq AppliedTo("update1")
    /\ (Over /\ ErrorsOf({"findChildren", "update1"}) # {}) =>
          /\ calls \cap {"findSub", "update2"} = {}
          /\ nextCalls = 1 /\ nextErr = errs[1]
    /\ (Over /\ ErrorsOf({"findSub", "update2"}) # {}) =>
          nextCalls = 1 /\ nextErr = errs[1]
    /\ (Completed("remove") /\ "findChildren" \in calls) =>
          /\ "findSub" \in calls
          /\ FindByAncestrySegment(pre, self.id) \subseteq AppliedTo("update2")

\* C9: a save whose parent id resolves to no record hands an error to the
\* continuation and writes nothing.
C9_ParentNotFound ==
    (Over /\ kind = "save" /\ "findOne" \in calls /\ errs = << >> /\ ~pre[self.parent].exists)
    => /\ nextCalls = 1
       /\ nextErr # NoErr
       /\ store = pre

\* C10: when an update of a bulk rewrite fails, the operation is reported as
\* failed with the first error the store reported, the document of the
\* operation is not written, every update already acknowledged is still in
\* the collection, and no failed update is issued again.
C10_PartialFailure ==
    (Over /\ ErrorsOf({"update", "update1", "update2"}) # {})
    => /\ nextCalls = 1
       /\ nextErr = errs[1]
       /\ kind = "save" => store[self.id] = pre[self.id]
       /\ kind = "remove" => store[self.id].exists
       /\ \A u \in applied :
             /\ store[u.id].exists
             /\ u.field = "parent" => store[u.id].parent = u.value
             /\ u.field = "ancestry" => store[u.id].ancestry = u.value
       /\ \A k \in ErrorsOf({"update", "update1", "update2"}) :
             errs[k].id \notin AppliedTo(errs[k].call)

\* witness of C10: one update was applied, another failed, the operation is over
C10_Witness ==
    /\ Over
    /\ applied # {}
    /\ ErrorsOf({"update", "update1", "update2"}) # {}
    /\ \E u \in applied : store[u.id] # pre[u.id]

\* C11: a configuration error fails before any store call: under an onDelete
\* value that names no policy no remove issues a store call, and
\* getChildrenTree without a callback throws without issuing its find.
C11_ConfigFailsFast ==
    /\ (onDelete \notin {"DELETE", "REPARENT"} /\ kind = "remove") => calls = {}
    /\ (query.op = "getChildrenTree" /\ ~query.hasNext) => query.threw /\ query.finds = 0

\* ------------------------------------------------ claims on the read side
\* The chain A (root), B (child of A), C (child of B) and nothing else.
Chain(st) ==
    /\ { i \in Ids : st[i].exists } = {<<"a">>, <<"b">>, <<"c">>}
    /\ st[<<"a">>].parent = Null
    /\ st[<<"b">>].parent = <<"a">>
    /\ st[<<"c">>].parent = <<"b">>

\* An output entry with its children array set.
Node(id, children) == [id |-> id, has |-> TRUE, children |-> children]

\* getChildrenTree was called with a callback and these arguments.
TreeCall(minLevels, allowEmptyChildren) ==
    /\ query.op = "getChildrenTree"
    /\ query.hasNext
    /\ query.root = Null
    /\ query.recursive
    /\ query.minLevel \in minLevels
    /\ query.allowEmptyChildren \in allowEmptyChildren

\* C12: with default options (no root, minLevel 1, allowEmptyChildren true)
\* every root of the input is a top-level entry of the output, and the chain
\* A, B, C yields exactly [{A, children: [{B, children: [{C, children: []}]}]}].
C12_TreeAssembly ==
    TreeCall({0, 1}, {TRUE}) =>
        /\ ~query.threw
        /\ \A n \in Stored : store[n].parent = Null =>
              \E k \in 1..Len(query.out) : query.out[k].id = n
        /\ Chain(store) =>
              query.out = << Node(<<"a">>, << Node(<<"b">>, << Node(<<"c">>, << >>) >>) >>) >>

\* C13: on the chain A, B, C, minLevel = 2 yields exactly
\* [{B, children: [{C, children: []}]}].
C13_MinLevelFilter ==
    (TreeCall({2}, {TRUE}) /\ Chain(store)) =>
        /\ ~query.threw
        /\ query.out = << Node(<<"b">>, << Node(<<"c">>, << >>) >>) >>

\* C14: the id-in-set filter of getAncestors holds exactly the ancestors of
\* the node, from the forest root down to and including its parent; it is
\* empty for a root.
C14_AncestorIds ==
    query.op = "getAncestors" =>
        query.out = ParentChain(store, store[query.self].parent, Cardinality(Ids))

\* C15: getChildren selects exactly the descendants of self when recursive,
\* and exactly the documents whose parent is self otherwise.
C15_ChildrenSelection ==
    query.op = "getChildren" =>
        query.out = IF query.recursive THEN Descendants(store, query.self)
                    ELSE Children(store, query.self)

\* Every entry nested under owner has owner as its parent, at every depth.
RECURSIVE NestedUnderParent(_, _)
NestedUnderParent(arr, owner) ==
    \A k \in 1..Len(arr) :
        /\ owner # Null => store[arr[k].id].parent = owner
        /\ NestedUnderParent(arr[k].children, arr[k].id)

\* C16: every node the assembler nests inside a children container is in the
\* container of the node whose id is its parent.
C16_NestedUnderRealParent ==
    (query.op = "getChildrenTree" /\ query.hasNext /\ ~query.threw) =>
        NestedUnderParent(query.out, Null)

\* C17: for every input and every option combination the assembler raises no
\* error and the completion callback is invoked once with the result.
C17_DropsSilently ==
    (query.op = "getChildrenTree" /\ query.hasNext) =>
        /\ ~query.threw
        /\ query.cbCalls = 1

\* ------------------------------------------------ claims on the hooks
\* A completed save of a stored document that reported parent as changed
\* while the parent is the one it had, in a collection satisfying I1.
SameParentSave ==
    /\ Completed("save")
    /\ ~self.isNew
    /\ isParentChange
    /\ self.parent = pre[self.id].parent
    /\ \A n \in Ids : pre[n].exists => I1At(pre, n)

\* C18: a save that reports parent as changed while the new parent equals the
\* current one leaves the ancestry of the node and of every other stored
\* node as it was before the save.
C18_SameParentIdempotent == SameParentSave => store = pre

\* witness of C18: such a save has rewritten at least one descendant
C18_Witness ==
    /\ SameParentSave
    /\ self.parent # Null
    /\ AppliedTo("update") # {}

\* C19: every invocation of a hook invokes its continuation exactly once,
\* whatever each store call on the way answers: never twice, and never zero
\* times once the hook has nothing left to do.
C19_ContinuationOnce ==
    /\ nextCalls <= 1
    /\ Over => nextCalls = 1

\* C20: a remove under REPARENT changes only documents of the removed node's
\* subtree: every document that is not a descendant of it keeps its parent
\* and its ancestry.
C20_ReparentFrame ==
    (Completed("remove") /\ onDelete = "REPARENT" /\ Consistent(pre)) =>
        \A x \in Ids \ (Descendants(pre, self.id) \cup {self.id}) : store[x] = pre[x]

====
